---- MODULE Spec2Model ----
(***************************************************************************)
(* A model of pkg/client/unversioned/client.go: the Client facade and its  *)
(* accessors, the discovery operations (ServerVersion, ServerAPIVersions,  *)
(* SupportedResourcesForGroupVersion, SupportedResources), the component   *)
(* validator (ValidateComponents) and the error classifier (IsTimeout).    *)
(*                                                                         *)
(* Texts (response bodies, error messages) are sequences of tokens; a      *)
(* substring test is a test for a contiguous run of tokens.  A pointer is  *)
(* a sequence of length at most one: <<>> is nil, <<v>> points to v.       *)
(***************************************************************************)
EXTENDS Naturals, Sequences, FiniteSets

VARIABLES client, op, pc, arg, apis, idx, result, trace, ret,
          terr, tres, tpc

vars == <<client, op, pc, arg, apis, idx, result, trace, ret, terr, tres, tpc>>

discoveryVars == <<client, op, pc, arg, apis, idx, result, trace, ret>>

classifierVars == <<terr, tres, tpc>>

(***************************************************************************)
(* Bounds.                                                                 *)
(***************************************************************************)
\* the number of goroutines that use the same Client concurrently
NumProcs == 2

\* the longest version list the version-listing call returns
MaxVersions == 2

Procs == 1..NumProcs

(***************************************************************************)
(* Pointers and texts.                                                     *)
(***************************************************************************)
Nil == <<>>

Ref(v) == <<v>>

\* strings.Contains at token granularity: sub is a contiguous run of text
Contains(text, sub) ==
  \E i \in 0..Len(text) :
    /\ i + Len(sub) <= Len(text)
    /\ SubSeq(text, i + 1, i + Len(sub)) = sub

\* the literal of the fallback test of IsTimeout
ClosedConn == <<"use", "of", "closed", "network", "connection">>

(***************************************************************************)
(* Errors.  An error value has a dynamic type, a message, and, by type:    *)
(*   errorString  no method but Error()                                    *)
(*   timeoutOnly  a Timeout() method but no Temporary(): not a net.Error   *)
(*   netError     implements net.Error                                     *)
(*   urlError     *url.Error: wraps inner; isNet says whether the build's  *)
(*                *url.Error implements net.Error itself                   *)
(*   syntaxError, typeError   the failures of json.Unmarshal               *)
(***************************************************************************)
NoError == [type |-> "nil", msg |-> <<>>, timeout |-> FALSE, isNet |-> FALSE, inner |-> Nil]

MkError(type, msg, timeout) ==
  [type |-> type, msg |-> msg, timeout |-> timeout, isNet |-> FALSE, inner |-> Nil]

\* (*url.Error).Error(): Op + " " + URL + ": " + Err.Error()
URLError(e, isNet) ==
  [type |-> "urlError", msg |-> <<"Get", "http://host/api", ":">> \o e.msg,
   timeout |-> FALSE, isNet |-> isNet, inner |-> Ref(e)]

Messages ==
  { ClosedConn,
    <<"read", "tcp", ":">> \o ClosedConn \o <<"again">>,
    <<"use", "of", "closed", "connection">>,
    <<"i/o", "timeout">>,
    <<>> }

BaseErrors ==
  { MkError("errorString", m, FALSE) : m \in Messages } \cup
  { MkError(t, m, b) : t \in {"timeoutOnly", "netError"}, m \in Messages, b \in BOOLEAN }

ErrorValues ==
  {NoError} \cup BaseErrors \cup { URLError(e, n) : e \in BaseErrors, n \in BOOLEAN }

\* whether the value has a Timeout() bool method
HasTimeoutMethod(e) ==
  \/ e.type \in {"timeoutOnly", "netError"}
  \/ e.type = "urlError" /\ e.isNet

\* the type assertion e.(net.Error)
IsNetError(e) ==
  \/ e.type = "netError"
  \/ e.type = "urlError" /\ e.isNet

\* e.Timeout(); (*url.Error).Timeout() asks its inner error, when that has the method
TimeoutOf(e) ==
  IF e.type = "urlError"
    THEN /\ e.isNet
         /\ HasTimeoutMethod(e.inner[1])
         /\ e.inner[1].timeout
    ELSE e.timeout

\* IsTimeout with a *url.Error case that returns false when the inner error
\* is no net.Error, instead of leaving the switch
IsTimeoutURLCaseReturns(err) ==
  IF err = NoError THEN FALSE
  ELSE IF err.type = "urlError"
    THEN IsNetError(err.inner[1]) /\ TimeoutOf(err.inner[1])
  ELSE IF IsNetError(err)
    THEN TimeoutOf(err)
  ELSE Contains(err.msg, ClosedConn)

(***************************************************************************)
(* IsTimeout.  The type switch takes the first matching case: a *url.Error *)
(* whose inner error is no net.Error leaves the switch, and the message    *)
(* test decides.                                                           *)
(***************************************************************************)
IsTimeout(err) ==
  IF err = NoError THEN FALSE
  ELSE IF err.type = "urlError"
    THEN IF IsNetError(err.inner[1])
           THEN TimeoutOf(err.inner[1])
           ELSE Contains(err.msg, ClosedConn)
  ELSE IF IsNetError(err)
    THEN TimeoutOf(err)
  ELSE Contains(err.msg, ClosedConn)

(***************************************************************************)
(* The transport and JSON decoding.  Raw() yields a body or an error.      *)
(***************************************************************************)
ObjA == <<"{", "A", "}">>

ObjB == <<"{", "B", "}">>

ArrS == <<"[", "s1", "s2", "]">>

NotJSON == <<"not", "json">>

Truncated == <<"{", "A">>

Bodies == {ObjA, ObjB, ArrS, NotJSON, Truncated, <<>>}

TransportErrors ==
  { MkError("netError", <<"i/o", "timeout">>, TRUE),
    URLError(MkError("errorString", ClosedConn, FALSE), TRUE) }

RawResults ==
  { [body |-> b, err |-> NoError] : b \in Bodies } \cup
  { [body |-> <<>>, err |-> e] : e \in TransportErrors }

\* the JSON value a body holds: an object, an array, or no JSON text at all
JSONShape(body) ==
  IF Len(body) < 2 THEN "invalid"
  ELSE IF body[1] = "{" /\ body[Len(body)] = "}" THEN "object"
  ELSE IF body[1] = "[" /\ body[Len(body)] = "]" THEN "array"
  ELSE "invalid"

\* json.Unmarshal(body, &v), v a struct ("object") or a slice ("array")
Unmarshal(body, target) ==
  IF JSONShape(body) = "invalid"
    THEN [val |-> <<>>,
          err |-> MkError("syntaxError",
                          IF body = <<>> \/ body[1] \in {"{", "["}
                            THEN <<"unexpected", "end", "of", "JSON", "input">>
                            ELSE <<"invalid", "character">>, FALSE)]
  ELSE IF JSONShape(body) # target
    THEN [val |-> <<>>,
          err |-> MkError("typeError",
                          <<"json:", "cannot", "unmarshal", JSONShape(body)>>, FALSE)]
  ELSE [val |-> SubSeq(body, 2, Len(body) - 1), err |-> NoError]

\* fmt.Errorf("got '%s': %v", string(body), err)
Errorf(body, err) ==
  MkError("errorString", <<"got", "'">> \o body \o <<"'", ":">> \o err.msg, FALSE)

\* a GET request: the path segments handed to AbsPath or UnversionedPath
Get(kind, segs) == [fn |-> kind, segs |-> segs]

Result(val, err) == [val |-> val, err |-> err]

NoResult == Result(Nil, NoError)

(***************************************************************************)
(* What each operation makes of the transport's answer.                    *)
(***************************************************************************)
\* ServerVersion that wraps the transport's error like a decode failure
ServerVersionResultWrapped(raw) ==
  IF raw.err # NoError THEN Result(Nil, Errorf(raw.body, raw.err))
  ELSE LET u == Unmarshal(raw.body, "object")
       IN  IF u.err # NoError
             THEN Result(Nil, Errorf(raw.body, u.err))
             ELSE Result(Ref(u.val), NoError)

\* ServerVersion, after Raw() returned
ServerVersionResult(raw) ==
  IF raw.err # NoError THEN Result(Nil, raw.err)
  ELSE LET u == Unmarshal(raw.body, "object")
       IN  IF u.err # NoError
             THEN Result(Nil, Errorf(raw.body, u.err))
             ELSE Result(Ref(u.val), NoError)

\* ServerAPIVersions, after Raw() returned
ServerAPIVersionsResult(raw) ==
  IF raw.err # NoError THEN Result(Nil, raw.err)
  ELSE LET u == Unmarshal(raw.body, "object")
       IN  IF u.err # NoError
             THEN Result(Nil, Errorf(raw.body, u.err))
             ELSE Result(Ref(u.val), NoError)

\* ValidateComponents, after DoRaw() returned
ValidateComponentsResult(raw) ==
  IF raw.err # NoError THEN Result(Nil, raw.err)
  ELSE LET u == Unmarshal(raw.body, "array")
       IN  IF u.err # NoError
             THEN Result(Nil, Errorf(raw.body, u.err))
             ELSE Result(Ref([Items |-> u.val]), NoError)

\* a prefix selection that ignores case
PrefixAnyCase(groupVersion) == IF groupVersion \in {"v1", "V1"} THEN "/api" ELSE "/apis"

\* the prefix SupportedResourcesForGroupVersion selects
Prefix(groupVersion) == IF groupVersion = "v1" THEN "/api" ELSE "/apis"

\* the request SupportedResourcesForGroupVersion issues
ForGroupVersionRequest(groupVersion) ==
  Get("AbsPath", <<Prefix(groupVersion), groupVersion>>)

\* SupportedResourcesForGroupVersion, after Raw() returned: the decode
\* failure is returned as json.Unmarshal made it
ForGroupVersionResult(raw) ==
  IF raw.err # NoError THEN Result(Nil, raw.err)
  ELSE LET u == Unmarshal(raw.body, "object")
       IN  IF u.err # NoError
             THEN Result(Nil, u.err)
             ELSE Result(Ref(u.val), NoError)

\* a map made anew in every iteration of the loop
MapSetFresh(m, k, v) == [x \in {k} |-> v]

\* result[groupVersion] = resources
MapSet(m, k, v) == [x \in DOMAIN m \cup {k} |-> IF x = k THEN v ELSE m[x]]

(***************************************************************************)
(* The inputs of the operations.                                           *)
(***************************************************************************)
GroupVersions == {"v1", "", "V1", "v1 ", "group/v1", "extensions/v1beta1"}

ListedVersions == {"v1", "extensions/v1beta1"}

NamespaceNames == {"default", "kube-system"}

RECURSIVE SeqsUpTo(_, _)
SeqsUpTo(S, n) ==
  IF n = 0 THEN {<<>>}
  ELSE LET shorter == SeqsUpTo(S, n - 1)
       IN  shorter \cup { Append(q, x) : q \in shorter, x \in S }

\* what the version-listing call can return: a list of group-versions, or an error
ListResults ==
  { Result(Ref(l), NoError) : l \in SeqsUpTo(ListedVersions, MaxVersions) } \cup
  { Result(Nil, e) : e \in TransportErrors }

\* the answers of a server that is up, or down: the choices of the concurrent runs
FewRawResults ==
  { [body |-> ObjA, err |-> NoError],
    [body |-> <<>>, err |-> MkError("netError", <<"i/o", "timeout">>, TRUE)] }

FewListResults ==
  { r \in ListResults : r.err \in {NoError, MkError("netError", <<"i/o", "timeout">>, TRUE)} }

\* the Client as constructed: the embedded *RESTClient and *ExtensionsClient
NewClient == [RESTClient |-> "restClient", ExtensionsClient |-> "extensionsClient"]

(***************************************************************************)
(* The state after construction: a Client, and callers that called nothing.*)
(* Per caller p: op[p] the operation in progress, pc[p] its position, and  *)
(* the locals of SupportedResources (apis, idx for the range loop, result).*)
(* trace[p] lists the calls the operation made so far, each with the       *)
(* answer it got (Nil while the caller is blocked in it); ret[p] is what   *)
(* the operation returned.                                                 *)
(***************************************************************************)
InitDiscovery ==
  /\ client = NewClient
  /\ op = [p \in Procs |-> "none"]
  /\ pc = [p \in Procs |-> "idle"]
  /\ arg = [p \in Procs |-> ""]
  /\ apis = [p \in Procs |-> <<>>]
  /\ idx = [p \in Procs |-> 0]
  /\ result = [p \in Procs |-> Nil]
  /\ trace = [p \in Procs |-> <<>>]
  /\ ret = [p \in Procs |-> NoResult]

InitClassifier ==
  /\ terr = NoError
  /\ tres = FALSE
  /\ tpc = "idle"

Init == InitDiscovery /\ InitClassifier

\* caller p is in no operation: it may call one
CanCall(p) == pc[p] \in {"idle", "done"}

\* caller p is blocked in the one request of operation name
Blocked(p, name) == op[p] = name /\ pc[p] = "wait"

Called(call) == [call |-> call, out |-> Nil]

\* the last call of the trace, answered
Answered(tr, out) == [tr EXCEPT ![Len(tr)].out = Ref(out)]

\* caller p enters operation name with argument a and comes to position at,
\* having made the calls tr and returned r (NoResult while it runs)
Enter(p, name, a, tr, at, r) ==
  /\ op' = [op EXCEPT ![p] = name]
  /\ arg' = [arg EXCEPT ![p] = a]
  /\ apis' = [apis EXCEPT ![p] = <<>>]
  /\ idx' = [idx EXCEPT ![p] = 0]
  /\ result' = [result EXCEPT ![p] = Nil]
  /\ trace' = [trace EXCEPT ![p] = tr]
  /\ pc' = [pc EXCEPT ![p] = at]
  /\ ret' = [ret EXCEPT ![p] = r]
  /\ UNCHANGED <<client, classifierVars>>

\* caller p gets raw from the transport and returns res
Leave(p, raw, res) ==
  /\ trace' = [trace EXCEPT ![p] = Answered(trace[p], raw)]
  /\ ret' = [ret EXCEPT ![p] = res]
  /\ pc' = [pc EXCEPT ![p] = "done"]
  /\ UNCHANGED <<client, op, arg, apis, idx, result, classifierVars>>

(***************************************************************************)
(* ServerVersion, ServerAPIVersions, ValidateComponents and                *)
(* SupportedResourcesForGroupVersion: one request, then the answer.        *)
(***************************************************************************)
ServerVersionCall(p) ==
  /\ CanCall(p)
  /\ Enter(p, "ServerVersion", "", <<Called(Get("AbsPath", <<"/version">>))>>, "wait", NoResult)

ServerVersionReturn(p) ==
  /\ Blocked(p, "ServerVersion")
  /\ \E raw \in RawResults : Leave(p, raw, ServerVersionResult(raw))

ServerAPIVersionsCall(p) ==
  /\ CanCall(p)
  /\ Enter(p, "ServerAPIVersions", "", <<Called(Get("UnversionedPath", <<"">>))>>, "wait", NoResult)

ServerAPIVersionsReturn(p) ==
  /\ Blocked(p, "ServerAPIVersions")
  /\ \E raw \in RawResults : Leave(p, raw, ServerAPIVersionsResult(raw))

ValidateComponentsCall(p) ==
  /\ CanCall(p)
  /\ Enter(p, "ValidateComponents", "", <<Called(Get("AbsPath", <<"/validate">>))>>, "wait", NoResult)

ValidateComponentsReturn(p) ==
  /\ Blocked(p, "ValidateComponents")
  /\ \E raw \in RawResults : Leave(p, raw, ValidateComponentsResult(raw))

ForGroupVersionCall(p) ==
  /\ CanCall(p)
  /\ \E gv \in GroupVersions :
       Enter(p, "SupportedResourcesForGroupVersion", gv,
             <<Called(ForGroupVersionRequest(gv))>>, "wait", NoResult)

ForGroupVersionReturn(p) ==
  /\ Blocked(p, "SupportedResourcesForGroupVersion")
  /\ \E raw \in RawResults : Leave(p, raw, ForGroupVersionResult(raw))

(***************************************************************************)
(* SupportedResources(c, cfg): the version listing, then one               *)
(* SupportedResourcesForGroupVersion call per listed group-version.        *)
(***************************************************************************)
\* apis, err := ServerAPIVersions(cfg): the caller blocks in the listing
SupportedResourcesCall(p) ==
  /\ CanCall(p)
  /\ Enter(p, "SupportedResources", "",
           <<Called([fn |-> "ServerAPIVersions", segs |-> <<>>])>>, "wait", NoResult)

\* the listing returns: its error is returned, or the map is made and the loop entered
SupportedResourcesListed(p, lists) ==
  /\ Blocked(p, "SupportedResources")
  /\ \E r \in lists :
       /\ trace' = [trace EXCEPT ![p] = Answered(trace[p], r)]
       /\ IF r.err # NoError
            THEN /\ ret' = [ret EXCEPT ![p] = Result(Nil, r.err)]
                 /\ pc' = [pc EXCEPT ![p] = "done"]
                 /\ UNCHANGED <<apis, idx, result>>
            ELSE /\ apis' = [apis EXCEPT ![p] = r.val[1]]
                 /\ result' = [result EXCEPT ![p] = Ref(<<>>)]
                 /\ idx' = [idx EXCEPT ![p] = 1]
                 /\ pc' = [pc EXCEPT ![p] = "loop"]
                 /\ UNCHANGED ret
  /\ UNCHANGED <<client, op, arg, classifierVars>>

\* the next iteration of the range loop calls c.SupportedResourcesForGroupVersion
SupportedResourcesFetch(p) ==
  /\ op[p] = "SupportedResources"
  /\ pc[p] = "loop"
  /\ idx[p] <= Len(apis[p])
  /\ trace' = [trace EXCEPT ![p] = Append(@, Called(ForGroupVersionRequest(apis[p][idx[p]])))]
  /\ pc' = [pc EXCEPT ![p] = "fetch"]
  /\ UNCHANGED <<client, op, arg, apis, idx, result, ret, classifierVars>>

\* best effort: what was fetched so far is returned together with the error
SupportedResourcesFetchedPartial(p, raws) ==
  /\ op[p] = "SupportedResources"
  /\ pc[p] = "fetch"
  /\ \E raw \in raws :
       LET res == ForGroupVersionResult(raw)
       IN  /\ trace' = [trace EXCEPT ![p] = Answered(trace[p], raw)]
           /\ IF res.err # NoError
                THEN /\ ret' = [ret EXCEPT ![p] = Result(result[p], res.err)]
                     /\ pc' = [pc EXCEPT ![p] = "done"]
                     /\ UNCHANGED <<idx, result>>
                ELSE /\ result' = [result EXCEPT
                                     ![p] = Ref(MapSet(result[p][1], apis[p][idx[p]], res.val))]
                     /\ idx' = [idx EXCEPT ![p] = @ + 1]
                     /\ pc' = [pc EXCEPT ![p] = "loop"]
                     /\ UNCHANGED ret
  /\ UNCHANGED <<client, op, arg, apis, classifierVars>>

\* a failed call is skipped and the loop goes on
SupportedResourcesFetchedSkips(p, raws) ==
  /\ op[p] = "SupportedResources"
  /\ pc[p] = "fetch"
  /\ \E raw \in raws :
       LET res == ForGroupVersionResult(raw)
       IN  /\ trace' = [trace EXCEPT ![p] = Answered(trace[p], raw)]
           /\ result' = [result EXCEPT
                           ![p] = IF res.err # NoError THEN @
                                  ELSE Ref(MapSet(result[p][1], apis[p][idx[p]], res.val))]
           /\ idx' = [idx EXCEPT ![p] = @ + 1]
           /\ pc' = [pc EXCEPT ![p] = "loop"]
           /\ UNCHANGED ret
  /\ UNCHANGED <<client, op, arg, apis, classifierVars>>

\* one map shared by every invocation in progress, instead of a map per call
SupportedResourcesFetchedShared(p, raws) ==
  /\ op[p] = "SupportedResources"
  /\ pc[p] = "fetch"
  /\ \E raw \in raws :
       LET res == ForGroupVersionResult(raw)
       IN  /\ trace' = [trace EXCEPT ![p] = Answered(trace[p], raw)]
           /\ IF res.err # NoError
                THEN /\ ret' = [ret EXCEPT ![p] = Result(Nil, res.err)]
                     /\ pc' = [pc EXCEPT ![p] = "done"]
                     /\ UNCHANGED <<idx, result>>
                ELSE /\ result' = [q \in Procs |->
                                     IF result[q] = Nil THEN Nil
                                     ELSE Ref(MapSet(result[q][1], apis[p][idx[p]], res.val))]
                     /\ idx' = [idx EXCEPT ![p] = @ + 1]
                     /\ pc' = [pc EXCEPT ![p] = "loop"]
                     /\ UNCHANGED ret
  /\ UNCHANGED <<client, op, arg, apis, classifierVars>>

\* the call returns: its error ends the operation, its resources enter the map
SupportedResourcesFetched(p, raws) ==
  /\ op[p] = "SupportedResources"
  /\ pc[p] = "fetch"
  /\ \E raw \in raws :
       LET res == ForGroupVersionResult(raw)
       IN  /\ trace' = [trace EXCEPT ![p] = Answered(trace[p], raw)]
           /\ IF res.err # NoError
                THEN /\ ret' = [ret EXCEPT ![p] = Result(Nil, res.err)]
                     /\ pc' = [pc EXCEPT ![p] = "done"]
                     /\ UNCHANGED <<idx, result>>
                ELSE /\ result' = [result EXCEPT
                                     ![p] = Ref(MapSet(result[p][1], apis[p][idx[p]], res.val))]
                     /\ idx' = [idx EXCEPT ![p] = @ + 1]
                     /\ pc' = [pc EXCEPT ![p] = "loop"]
                     /\ UNCHANGED ret
  /\ UNCHANGED <<client, op, arg, apis, classifierVars>>

\* the range is exhausted: return result, nil
SupportedResourcesReturn(p) ==
  /\ op[p] = "SupportedResources"
  /\ pc[p] = "loop"
  /\ idx[p] > Len(apis[p])
  /\ ret' = [ret EXCEPT ![p] = Result(result[p], NoError)]
  /\ pc' = [pc EXCEPT ![p] = "done"]
  /\ UNCHANGED <<client, op, arg, apis, idx, result, trace, classifierVars>>

(***************************************************************************)
(* The accessors: each returns a new sub-client made from the Client (and  *)
(* the namespace); Extensions returns the embedded ExtensionsClient.       *)
(***************************************************************************)
\* newPods(c, namespace), newNodes(c), ...: a value that refers to c
NewSubClient(kind, c, ns) == [kind |-> kind, r |-> c, ns |-> ns]

\* an accessor that asks the server for the namespace before it returns
NamespacedAccessorAsks(p, name) ==
  \E ns \in NamespaceNames :
    Enter(p, name, ns, <<Called(Get("AbsPath", <<"/api", "v1", "namespaces", ns>>))>>, "done",
          Result(Ref(NewSubClient(name, client, Ref(ns))), NoError))

NamespacedAccessor(p, name) ==
  \E ns \in NamespaceNames :
    Enter(p, name, ns, <<>>, "done", Result(Ref(NewSubClient(name, client, Ref(ns))), NoError))

ClusterAccessor(p, name) ==
  Enter(p, name, "", <<>>, "done", Result(Ref(NewSubClient(name, client, Nil)), NoError))

ReplicationControllers(p) == CanCall(p) /\ NamespacedAccessor(p, "ReplicationControllers")

Nodes(p) == CanCall(p) /\ ClusterAccessor(p, "Nodes")

Events(p) == CanCall(p) /\ NamespacedAccessor(p, "Events")

Endpoints(p) == CanCall(p) /\ NamespacedAccessor(p, "Endpoints")

Pods(p) == CanCall(p) /\ NamespacedAccessor(p, "Pods")

PodTemplates(p) == CanCall(p) /\ NamespacedAccessor(p, "PodTemplates")

Services(p) == CanCall(p) /\ NamespacedAccessor(p, "Services")

LimitRanges(p) == CanCall(p) /\ NamespacedAccessor(p, "LimitRanges")

ResourceQuotas(p) == CanCall(p) /\ NamespacedAccessor(p, "ResourceQuotas")

ServiceAccounts(p) == CanCall(p) /\ NamespacedAccessor(p, "ServiceAccounts")

Secrets(p) == CanCall(p) /\ NamespacedAccessor(p, "Secrets")

Namespaces(p) == CanCall(p) /\ ClusterAccessor(p, "Namespaces")

PersistentVolumes(p) == CanCall(p) /\ ClusterAccessor(p, "PersistentVolumes")

PersistentVolumeClaims(p) == CanCall(p) /\ NamespacedAccessor(p, "PersistentVolumeClaims")

ComponentStatuses(p) == CanCall(p) /\ ClusterAccessor(p, "ComponentStatuses")

Extensions(p) ==
  /\ CanCall(p)
  /\ Enter(p, "Extensions", "", <<>>, "done", Result(Ref(client.ExtensionsClient), NoError))

AccessorNames ==
  {"ReplicationControllers", "Nodes", "Events", "Endpoints", "Pods", "PodTemplates",
   "Services", "LimitRanges", "ResourceQuotas", "ServiceAccounts", "Secrets",
   "Namespaces", "PersistentVolumes", "PersistentVolumeClaims", "ComponentStatuses", "Extensions"}

(***************************************************************************)
(* IsTimeout applied to an error value.                                    *)
(***************************************************************************)
IsTimeoutReturn ==
  /\ tpc = "called"
  /\ tres' = IsTimeout(terr)
  /\ tpc' = "done"
  /\ UNCHANGED <<terr, discoveryVars>>

(***************************************************************************)
(* The specifications: one caller and every operation; several callers of  *)
(* SupportedResources on the same Client; the classifier on every error.   *)
(***************************************************************************)
MainProcs == {1}

Next ==
  \E p \in MainProcs :
    \/ ServerVersionCall(p) \/ ServerVersionReturn(p)
    \/ ServerAPIVersionsCall(p) \/ ServerAPIVersionsReturn(p)
    \/ ValidateComponentsCall(p) \/ ValidateComponentsReturn(p)
    \/ ForGroupVersionCall(p) \/ ForGroupVersionReturn(p)
    \/ SupportedResourcesCall(p)
    \/ SupportedResourcesListed(p, ListResults)
    \/ SupportedResourcesFetch(p)
    \/ SupportedResourcesFetched(p, RawResults)
    \/ SupportedResourcesReturn(p)
    \/ ReplicationControllers(p)
    \/ Nodes(p)
    \/ Events(p)
    \/ Endpoints(p)
    \/ Pods(p)
    \/ PodTemplates(p)
    \/ Services(p)
    \/ LimitRanges(p)
    \/ ResourceQuotas(p)
    \/ ServiceAccounts(p)
    \/ Secrets(p)
    \/ Namespaces(p)
    \/ PersistentVolumes(p)
    \/ PersistentVolumeClaims(p)
    \/ ComponentStatuses(p)
    \/ Extensions(p)

Spec == Init /\ [][Next]_vars

NextConc ==
  \E p \in Procs :
    \/ SupportedResourcesCall(p)
    \/ SupportedResourcesListed(p, FewListResults)
    \/ SupportedResourcesFetch(p)
    \/ SupportedResourcesFetched(p, FewRawResults)
    \/ SupportedResourcesReturn(p)

SpecConc == Init /\ [][NextConc]_vars

InitTimeout ==
  /\ InitDiscovery
  /\ terr \in ErrorValues
  /\ tres = FALSE
  /\ tpc = "called"

NextTimeout == IsTimeoutReturn

SpecTimeout == InitTimeout /\ [][NextTimeout]_vars

(***************************************************************************)
(* Reading a trace of SupportedResources: entry 1 is the version listing,  *)
(* entry i + 1 the call for the i-th listed group-version.                 *)
(***************************************************************************)
InSupportedResources(p) == op[p] = "SupportedResources" /\ pc[p] # "idle"

ListingOf(tr) == tr[1].out[1]

ListOf(tr) == ListingOf(tr).val[1]

\* what the i-th call of the trace returned to SupportedResources
ReturnedBy(tr, i) ==
  IF i = 1 THEN ListingOf(tr) ELSE ForGroupVersionResult(tr[i].out[1])

FailedCalls(tr) ==
  { i \in 1..Len(tr) : tr[i].out # Nil /\ ReturnedBy(tr, i).err # NoError }

KeysOf(list) == { list[i] : i \in 1..Len(list) }

LastIndexOf(list, k) ==
  CHOOSE i \in 1..Len(list) : list[i] = k /\ \A j \in (i + 1)..Len(list) : list[j] # k

(***************************************************************************)
(* C1.  SupportedResources is all-or-nothing: once the version listing or  *)
(* any SupportedResourcesForGroupVersion call has failed, the operation    *)
(* has returned an error and a nil catalog; an error is never returned     *)
(* together with a catalog.                                                *)
(***************************************************************************)
C1_AllOrNothing ==
  \A p \in Procs :
    InSupportedResources(p) =>
      /\ FailedCalls(trace[p]) # {} =>
           /\ pc[p] = "done"
           /\ ret[p].err # NoError
           /\ ret[p].val = Nil
      /\ ret[p].err # NoError => ret[p].val = Nil

\* an earlier group-version was fetched, a later one failed, and nothing was returned
C1_Witness ==
  \E p \in Procs :
    /\ InSupportedResources(p)
    /\ pc[p] = "done"
    /\ Len(trace[p]) = 3
    /\ FailedCalls(trace[p]) = {3}
    /\ DOMAIN result[p][1] # {}
    /\ ret[p].val = Nil

(***************************************************************************)
(* C2.  When SupportedResources returns without error, the keys of the     *)
(* returned catalog are exactly the distinct group-versions of the version *)
(* list obtained at the start of the call, and each key maps to the        *)
(* resource list SupportedResourcesForGroupVersion returned for it in this *)
(* call (to the one of the last call for it, when it is listed twice).     *)
(***************************************************************************)
C2_CatalogKeys ==
  \A p \in Procs :
    (InSupportedResources(p) /\ pc[p] = "done" /\ ret[p].err = NoError) =>
      /\ ret[p].val # Nil
      /\ DOMAIN ret[p].val[1] = KeysOf(ListOf(trace[p]))
      /\ \A k \in KeysOf(ListOf(trace[p])) :
           ret[p].val[1][k] =
             ReturnedBy(trace[p], LastIndexOf(ListOf(trace[p]), k) + 1).val

\* a catalog of two group-versions with different resource lists was returned
C2_Witness ==
  \E p \in Procs :
    /\ InSupportedResources(p)
    /\ pc[p] = "done"
    /\ ret[p].err = NoError
    /\ ListOf(trace[p]) = <<"v1", "extensions/v1beta1">>
    /\ ret[p].val[1]["v1"] = Ref(<<"A">>)
    /\ ret[p].val[1]["extensions/v1beta1"] = Ref(<<"B">>)

(***************************************************************************)
(* The operations that issue one request and decode its answer.            *)
(***************************************************************************)
DecodingOps ==
  {"ServerVersion", "ServerAPIVersions", "SupportedResourcesForGroupVersion",
   "ValidateComponents"}

\* the Go value the operation decodes into: a struct, or a slice
TargetOf(name) == IF name = "ValidateComponents" THEN "array" ELSE "object"

\* the transport's answer to the one request of a decoding operation
RawOf(p) == trace[p][1].out[1]

DecodeFailed(p) ==
  /\ op[p] \in DecodingOps
  /\ pc[p] = "done"
  /\ RawOf(p).err = NoError
  /\ Unmarshal(RawOf(p).body, TargetOf(op[p])).err # NoError

(***************************************************************************)
(* C3.  Every decode failure carries the raw response body: when           *)
(* ServerVersion, ServerAPIVersions, SupportedResourcesForGroupVersion or  *)
(* ValidateComponents gets a body that does not parse into the expected    *)
(* structure, it returns no result and an error whose text contains the    *)
(* body verbatim together with the text of the parse failure.              *)
(***************************************************************************)
C3_DecodeErrorCarriesBody ==
  \A p \in Procs :
    DecodeFailed(p) =>
      /\ ret[p].val = Nil
      /\ Contains(ret[p].err.msg, RawOf(p).body)
      /\ Contains(ret[p].err.msg, Unmarshal(RawOf(p).body, TargetOf(op[p])).err.msg)

(***************************************************************************)
(* C6.  SupportedResourcesForGroupVersion(gv) issues its GET to "/api"     *)
(* followed by gv if and only if gv is exactly "v1", and to "/apis"        *)
(* followed by gv for every other string.                                  *)
(***************************************************************************)
C6_PrefixSelection ==
  \A p \in Procs :
    (op[p] = "SupportedResourcesForGroupVersion" /\ pc[p] # "idle") =>
      /\ Len(trace[p]) = 1
      /\ trace[p][1].call.fn = "AbsPath"
      /\ Len(trace[p][1].call.segs) = 2
      /\ trace[p][1].call.segs[2] = arg[p]
      /\ trace[p][1].call.segs[1] \in {"/api", "/apis"}
      /\ trace[p][1].call.segs[1] = "/api" <=> arg[p] = "v1"

\* a group-version that differs from "v1" only in case went to the grouped prefix
C6_Witness ==
  \E p \in Procs :
    /\ op[p] = "SupportedResourcesForGroupVersion"
    /\ pc[p] = "done"
    /\ arg[p] = "V1"
    /\ trace[p][1].call.segs = <<"/apis", "V1">>

(***************************************************************************)
(* C7.  No retry, and transport errors unchanged: an invocation of         *)
(* ServerVersion, ServerAPIVersions, SupportedResourcesForGroupVersion or  *)
(* ValidateComponents issues exactly one request; when that request fails  *)
(* the operation returns nil and the very error the transport returned.    *)
(***************************************************************************)
C7_OneRequestSameError ==
  \A p \in Procs :
    (op[p] \in DecodingOps /\ pc[p] # "idle") =>
      /\ Len(trace[p]) = 1
      /\ pc[p] = "wait" <=> trace[p][1].out = Nil
      /\ pc[p] = "done" <=> trace[p][1].out # Nil
      /\ (pc[p] = "done" /\ RawOf(p).err # NoError) => ret[p] = Result(Nil, RawOf(p).err)

\* a request failed in the transport and the operation returned that error
C7_Witness ==
  \E p \in Procs :
    /\ op[p] = "ValidateComponents"
    /\ pc[p] = "done"
    /\ RawOf(p).err \in TransportErrors
    /\ ret[p].err = RawOf(p).err
    /\ Len(trace[p]) = 1

(***************************************************************************)
(* C8.  An accessor issues no request and leaves the Client's transport    *)
(* and extensions references as they were at construction.                 *)
(***************************************************************************)
C8_AccessorsPure ==
  /\ client = NewClient
  /\ \A p \in Procs :
       op[p] \in AccessorNames =>
         /\ trace[p] = <<>>
         /\ pc[p] = "done"
         /\ ret[p].err = NoError
         /\ ret[p].val # Nil

\* an accessor returned a sub-client bound to the unchanged Client
C8_Witness ==
  \E p \in Procs :
    /\ op[p] = "Pods"
    /\ pc[p] = "done"
    /\ ret[p].val = Ref(NewSubClient("Pods", NewClient, Ref("kube-system")))
    /\ client = NewClient

(***************************************************************************)
(* C10.  SupportedResources orders its calls: the version listing comes    *)
(* first and completes before any SupportedResourcesForGroupVersion call;  *)
(* when it fails its error is returned and no such call is issued; else    *)
(* the calls are issued one at a time in list order, and after the first   *)
(* failure no further call is issued and that failure's error is returned. *)
(***************************************************************************)
C10_CallOrder ==
  \A p \in Procs :
    InSupportedResources(p) =>
      /\ Len(trace[p]) >= 1
      /\ trace[p][1].call.fn = "ServerAPIVersions"
      /\ \A i \in 1..(Len(trace[p]) - 1) :
           trace[p][i].out # Nil /\ ReturnedBy(trace[p], i).err = NoError
      /\ Len(trace[p]) >= 2 =>
           /\ Len(trace[p]) - 1 <= Len(ListOf(trace[p]))
           /\ \A i \in 2..Len(trace[p]) :
                trace[p][i].call = ForGroupVersionRequest(ListOf(trace[p])[i - 1])
      /\ \A i \in FailedCalls(trace[p]) :
           /\ i = Len(trace[p])
           /\ pc[p] = "done"
           /\ ret[p].err = ReturnedBy(trace[p], i).err

\* the first of two listed group-versions failed: no call for the second
C10_Witness ==
  \E p \in Procs :
    /\ InSupportedResources(p)
    /\ pc[p] = "done"
    /\ Len(trace[p]) = 2
    /\ FailedCalls(trace[p]) = {2}
    /\ Len(ListOf(trace[p])) = 2
    /\ ret[p].err = ReturnedBy(trace[p], 2).err

(***************************************************************************)
(* Running SupportedResources alone against the answers of a trace.        *)
(***************************************************************************)
\* the catalog after the first n listed group-versions were fetched
CatalogAfter(tr, n) ==
  LET list == SubSeq(ListOf(tr), 1, n)
  IN  [k \in KeysOf(list) |-> ReturnedBy(tr, LastIndexOf(list, k) + 1).val]

FirstFailure(tr) == CHOOSE i \in FailedCalls(tr) : \A j \in FailedCalls(tr) : i <= j

\* what a sequential run returns that gets the answers of tr, in order
Alone(tr) ==
  IF FailedCalls(tr) # {}
    THEN Result(Nil, ReturnedBy(tr, FirstFailure(tr)).err)
    ELSE Result(Ref(CatalogAfter(tr, Len(ListOf(tr)))), NoError)

(***************************************************************************)
(* C9.  Concurrent invocations of SupportedResources on the same Client do *)
(* not interfere: under every interleaving each invocation builds its own  *)
(* catalog, holding the entries it fetched itself and no other, and        *)
(* returns what it would return alone against the answers it got.          *)
(***************************************************************************)
C9_NoInterference ==
  \A p \in Procs :
    InSupportedResources(p) =>
      /\ pc[p] \in {"loop", "fetch"} =>
           result[p] = Ref(CatalogAfter(trace[p], idx[p] - 1))
      /\ pc[p] = "done" =>
           /\ ret[p] = Alone(trace[p])
           /\ ret[p].err = NoError => Len(trace[p]) = Len(ListOf(trace[p])) + 1

\* one invocation holds an entry and is blocked in its next call while another,
\* for a different version list, has failed
C9_Witness ==
  \E p, q \in Procs :
    /\ p # q
    /\ InSupportedResources(p) /\ InSupportedResources(q)
    /\ pc[p] = "fetch"
    /\ DOMAIN result[p][1] = {"v1"}
    /\ pc[q] = "done"
    /\ Len(trace[q]) = 2
    /\ ret[q].err # NoError
    /\ ListOf(trace[q]) = <<"extensions/v1beta1">>

(***************************************************************************)
(* The structured timeout signal of an error, as IsTimeout sees it: the    *)
(* net.Error interface, on the error or on the inner error of a *url.Error.*)
(***************************************************************************)
InnerHasPredicate(e) == e.type = "urlError" /\ IsNetError(e.inner[1])

HasPredicate(e) == IsNetError(e) \/ InnerHasPredicate(e)

\* the inner predicate when the wrapper's inner error has one, else the error's own
PredicateOf(e) == IF InnerHasPredicate(e) THEN TimeoutOf(e.inner[1]) ELSE TimeoutOf(e)

(***************************************************************************)
(* C4.  For a non-nil error that exposes a structured timeout predicate,   *)
(* on the error itself or on the inner error of a URL-level wrapper,       *)
(* IsTimeout returns that predicate's value (the inner one when the        *)
(* wrapper's inner error has one, else the error's own), whatever the      *)
(* message; also for a wrapper that exposes a predicate while its inner    *)
(* error does not.                                                         *)
(***************************************************************************)
C4_PredicateDecides ==
  (tpc = "done" /\ terr # NoError /\ HasPredicate(terr)) => tres = PredicateOf(terr)

(***************************************************************************)
(* C5.  IsTimeout(nil) is false, and for a non-nil error with no           *)
(* structured timeout signal, neither on the error nor on the inner error  *)
(* of a URL-level wrapper, IsTimeout is true exactly when the message      *)
(* contains "use of closed network connection".                            *)
(***************************************************************************)
C5_FallbackOnMessage ==
  tpc = "done" =>
    /\ terr = NoError => tres = FALSE
    /\ (terr # NoError /\ ~HasPredicate(terr)) =>
         (tres <=> Contains(terr.msg, ClosedConn))

\* a wrapper without any timeout signal, around a closed-connection error, is a timeout
C5_Witness ==
  /\ tpc = "done"
  /\ terr.type = "urlError"
  /\ ~HasPredicate(terr)
  /\ terr.inner[1].msg = ClosedConn
  /\ tres = TRUE

====
